---- MODULE Spec2Model ----
(***************************************************************************)
(* VedaVault book sharing: the data store of supabase-schema.sql (tables,  *)
(* row level security policies, the transaction status trigger, the seed   *)
(* rows) and the requests the React pages issue against it.                *)
(*                                                                         *)
(* A request is one SQL statement run by the store as one transaction: the *)
(* policy check, the row write, the BEFORE UPDATE trigger and the cascade  *)
(* are one atomic step.  Requests have the column sets the pages send      *)
(* (Index.handleBorrowRequest, MyBooks.handleAddBook / handleDeleteBook,   *)
(* Transactions.handleApprove / handleReject / handleMarkReturned) and the *)
(* statements the policies name; the caller and the values are free, as    *)
(* the store is reached directly by every signed-in client.                *)
(*                                                                         *)
(* Spec and SpecAccess are the store alone (with its clock, with a log of  *)
(* each request's caller and outcome).  SpecIdentity adds the sign-up with *)
(* its trigger and the requests on profiles.  SpecClient adds one client   *)
(* on the Index page: the change feed of public.books, the list-Books      *)
(* queries it makes the page send and their answers arriving in any order. *)
(* SpecReader adds one client on the Transactions page.  SpecLifecycle is  *)
(* the pages' requests alone, with both the clock and the log.             *)
(***************************************************************************)
EXTENDS Integers, FiniteSets, Sequences, TLC

\* ---------------------------------------------------------------- bounds
\* the clock runs from 0 to MaxClock
MaxClock == 1
\* rows inserted after the seed, books and transactions together
MaxInserts == 1
\* identities registered after the seed ones
MaxSignUps == 1
\* change notifications queued for the subscribed client
MaxNotes == 1
\* list-Books queries of the client answered and not yet applied
MaxFetches == 2

\* ------------------------------------------------------- schema constants
BookStatuses == {"available", "borrowed", "reserved"}
TransactionStatuses == {"pending", "approved", "rejected", "completed"}
TransactionTypes == {"borrow", "return"}
LoanDays == 14
\* a NULL timestamp column; a set timestamp t is {t}
NULL == {}

\* the seed profiles of the modelled seed rows (Ivy Taylor, Jack Anderson) and one
\* more (Alice Johnson)
Identities == {"alice", "ivy", "jack"}

\* the transaction_type the requests carry (Index.handleBorrowRequest)
RequestTypes == {"borrow"}

\* 'The Alchemist': owner Ivy, status 'borrowed'
SeedBooks ==
  { [book_id |-> 1, owner_id |-> "ivy", status |-> "borrowed"] }

\* the last seed transaction: Jack's pending request for 'The Alchemist'
SeedTransactions ==
  { [transaction_id |-> 1, book_id |-> 1, borrower_id |-> "jack",
     transaction_type |-> "borrow", status |-> "pending",
     lend_date |-> NULL, due_date |-> NULL, return_date |-> NULL] }

\* the auth.users rows the seed profiles reference (id, email, the name of
\* raw_user_meta_data)
SeedUsers ==
  { [id |-> "alice", email |-> "alice@vedavault.com", name |-> {"Alice Johnson"}],
    [id |-> "ivy", email |-> "ivy@vedavault.com", name |-> {"Ivy Taylor"}],
    [id |-> "jack", email |-> "jack@vedavault.com", name |-> {"Jack Anderson"}] }

\* the ids, emails and names a sign-up may carry; a name of NULL is metadata
\* without a name
Newcomers == {"kim", "lee"}
Emails == {u.email : u \in SeedUsers} \cup {"kim@vedavault.com"}
Names == {NULL, {"Kim"}}

VARIABLES
  books,          \* public.books rows
  transactions,   \* public.transactions rows
  nextBook,       \* the next book_id: uuid_generate_v4() never repeats an id
  nextTransaction, \* the next transaction_id
  now,            \* the store's clock, NOW()
  req,            \* the last request the store served and its outcome, when logged
  users,          \* auth.users rows
  profiles,       \* public.profiles rows
  viewer,         \* useAuth().user of the client, "none" without a client
  channel,        \* 'books-changes': change notifications not yet delivered to it
  fetches,        \* answers to fetchBooks queries that setBooks has not applied yet
  pageBooks,      \* the Index page's books state
  pageTransactions \* the Transactions page's transactions state

identity == <<users, profiles>>
client == <<viewer, fetches, pageBooks, pageTransactions>>
vars == <<books, transactions, nextBook, nextTransaction, now, req,
          users, profiles, viewer, channel, fetches, pageBooks, pageTransactions>>

\* ------------------------------------------------------------- helpers
BookIds == {b.book_id : b \in books}
TransactionIds == {t.transaction_id : t \in transactions}
UserIds == {u.id : u \in users}
ProfileIds == {p.id : p \in profiles}
Book(id) == CHOOSE b \in books : b.book_id = id
Transaction(id) == CHOOSE t \in transactions : t.transaction_id = id

\* SELECT owner_id FROM public.books WHERE book_id = <id>
OwnersOf(id) == {b.owner_id : b \in {x \in books : x.book_id = id}}

\* ------------------------------------------------------------ policies
books_insert_check(uid, row) == uid = row.owner_id
\* a policy that lets every signed-in identity update a book
books_update_using_anyone(uid, row) == uid \in Identities
books_update_using(uid, row) == uid = row.owner_id
books_delete_using(uid, row) == uid = row.owner_id
\* a SELECT policy that shows every transaction to every identity
transactions_select_using_all(uid, row) == TRUE
transactions_select_using(uid, row) ==
  uid = row.borrower_id \/ uid \in OwnersOf(row.book_id)
\* a policy that lets every signed-in identity insert for any borrower
transactions_insert_check_signed_in(uid, row) == uid \in Identities
transactions_insert_check(uid, row) == uid = row.borrower_id
\* a policy that also lets the borrower update the transaction
transactions_update_using_involved(uid, row) ==
  uid = row.borrower_id \/ uid \in OwnersOf(row.book_id)
transactions_update_using(uid, row) == uid \in OwnersOf(row.book_id)
\* a DELETE policy for the owner of the transaction's book
transactions_delete_using_owner(uid, row) == uid \in OwnersOf(row.book_id)
\* row level security is enabled and no DELETE policy exists on transactions
transactions_delete_using(uid, row) == FALSE

\* ------------------------------------------------------------- trigger
\* a trigger without its WHEN clause
on_transaction_status_change_always(old, new) == TRUE
\* WHEN (OLD.status IS DISTINCT FROM NEW.status)
on_transaction_status_change(old, new) == old.status # new.status

\* a trigger function that reads NOW() + INTERVAL '7 days'
update_book_status_new_week(old, new) ==
  IF new.status = "approved" /\ old.status = "pending"
  THEN [new EXCEPT !.lend_date = {now}, !.due_date = {now + 7}]
  ELSE IF new.status = "completed"
  THEN [new EXCEPT !.return_date = {now}]
  ELSE new

\* the row the trigger function returns
update_book_status_new(old, new) ==
  IF new.status = "approved" /\ old.status = "pending"
  THEN [new EXCEPT !.lend_date = {now}, !.due_date = {now + LoanDays}]
  ELSE IF new.status = "completed"
  THEN [new EXCEPT !.return_date = {now}]
  ELSE new

\* a trigger function without the UPDATE public.books of its ELSIF branch
update_book_status_books_kept(old, new) ==
  IF new.status = "approved" /\ old.status = "pending"
  THEN {IF b.book_id = new.book_id THEN [b EXCEPT !.status = "borrowed"] ELSE b
          : b \in books}
  ELSE books

\* a trigger function that also frees the book when a request is rejected
update_book_status_books_freed(old, new) ==
  IF new.status = "approved" /\ old.status = "pending"
  THEN {IF b.book_id = new.book_id THEN [b EXCEPT !.status = "borrowed"] ELSE b
          : b \in books}
  ELSE IF new.status \in {"completed", "rejected"}
  THEN {IF b.book_id = new.book_id THEN [b EXCEPT !.status = "available"] ELSE b
          : b \in books}
  ELSE books

\* the books table after the trigger function's UPDATE public.books
update_book_status_books(old, new) ==
  IF new.status = "approved" /\ old.status = "pending"
  THEN {IF b.book_id = new.book_id THEN [b EXCEPT !.status = "borrowed"] ELSE b
          : b \in books}
  ELSE IF new.status = "completed"
  THEN {IF b.book_id = new.book_id THEN [b EXCEPT !.status = "available"] ELSE b
          : b \in books}
  ELSE books

\* ------------------------------------------------------------ profiles
\* handle_new_user: the profiles row inserted for the auth.users row NEW
handle_new_user(new) ==
  [id |-> new.id,
   name |-> IF new.name = NULL THEN "User" ELSE CHOOSE n \in new.name : TRUE,
   email |-> new.email]

\* id UUID PRIMARY KEY, email TEXT UNIQUE NOT NULL, against the other rows
profiles_constraints(row, others) ==
  /\ row.id \notin {p.id : p \in others}
  /\ row.email \notin {p.email : p \in others}

profiles_insert_check(uid, row) == uid = row.id
profiles_update_using(uid, row) == uid = row.id
\* row level security is enabled and no DELETE policy exists on profiles
profiles_delete_using(uid, row) == FALSE

\* ------------------------------------------------------- change feed
\* ALTER PUBLICATION supabase_realtime ADD TABLE public.books: one change event for
\* each row of public.books a statement writes, queued for the subscribed client
Notified(n) == IF viewer = "none" THEN channel ELSE channel + n
CanNotify(n) == viewer = "none" \/ channel + n <= MaxNotes

\* a change feed that leaves out the rows the trigger function writes
update_book_status_writes_none(old, new) == 0

\* the rows of public.books the trigger function's UPDATE writes
update_book_status_writes(old, new) ==
  IF \/ new.status = "approved" /\ old.status = "pending"
     \/ new.status = "completed"
  THEN Cardinality({b \in books : b.book_id = new.book_id})
  ELSE 0

\* ------------------------------------------------------------- requests
Inserted == (nextBook - Cardinality(SeedBooks) - 1)
            + (nextTransaction - Cardinality(SeedTransactions) - 1)

\* the request log is off
NoLog == [op |-> "off", uid |-> "none", rows |-> 0, error |-> FALSE]

\* what the store answers to the client: { error } and the rows written
Served(op, uid, rows, error) ==
  IF req = NoLog THEN NoLog
  ELSE [op |-> op, uid |-> uid, rows |-> rows, error |-> error]

\* no page is open
NoClient ==
  /\ viewer = "none"
  /\ channel = 0
  /\ fetches = {}
  /\ pageBooks = {}
  /\ pageTransactions = {}

InitStore ==
  /\ now = 0
  /\ books = SeedBooks
  /\ transactions = SeedTransactions
  /\ nextBook = Cardinality(SeedBooks) + 1
  /\ nextTransaction = Cardinality(SeedTransactions) + 1
  /\ users = SeedUsers
  /\ profiles = {handle_new_user(u) : u \in SeedUsers}

Init == InitStore /\ NoClient /\ req = NoLog

\* time passes between requests
Tick ==
  /\ now < MaxClock
  /\ now' = now + 1
  /\ UNCHANGED <<books, transactions, nextBook, nextTransaction, req>>
  /\ UNCHANGED <<identity, client, channel>>

\* INSERT INTO books (owner_id, status): MyBooks.handleAddBook sends
\* owner_id = user.id and status = 'available'
InsertBook(uid, owner, status) ==
  LET row == [book_id |-> nextBook, owner_id |-> owner, status |-> status]
  IN /\ Inserted < MaxInserts
     /\ IF /\ books_insert_check(uid, row)
           /\ owner \in ProfileIds
           /\ status \in BookStatuses
        THEN /\ CanNotify(1)
             /\ books' = books \cup {row}
             /\ nextBook' = nextBook + 1
             /\ channel' = Notified(1)
             /\ req' = Served("insert books", uid, 1, FALSE)
        ELSE /\ UNCHANGED <<books, nextBook, channel>>
             /\ req' = Served("insert books", uid, 0, TRUE)
     /\ UNCHANGED <<transactions, nextTransaction, now, identity, client>>

\* UPDATE books SET status = <status> WHERE book_id = <id>
UpdateBook(uid, id, status) ==
  LET rows == {b \in books : b.book_id = id /\ books_update_using(uid, b)}
  IN /\ CanNotify(Cardinality(rows))
     /\ books' = {IF b \in rows THEN [b EXCEPT !.status = status] ELSE b : b \in books}
     /\ channel' = Notified(Cardinality(rows))
     /\ req' = Served("update books", uid, Cardinality(rows), FALSE)
     /\ UNCHANGED <<transactions, nextBook, nextTransaction, now, identity, client>>

\* a DELETE FROM books that leaves the transactions of the book in place
DeleteBook_no_cascade(uid, id) ==
  LET rows == {b \in books : b.book_id = id /\ books_delete_using(uid, b)}
  IN /\ CanNotify(Cardinality(rows))
     /\ books' = books \ rows
     /\ channel' = Notified(Cardinality(rows))
     /\ req' = Served("delete books", uid, Cardinality(rows), FALSE)
     /\ UNCHANGED <<transactions, nextBook, nextTransaction, now, identity, client>>

\* DELETE FROM books WHERE book_id = <id>, with ON DELETE CASCADE
DeleteBook(uid, id) ==
  LET rows == {b \in books : b.book_id = id /\ books_delete_using(uid, b)}
      gone == {b.book_id : b \in rows}
  IN /\ CanNotify(Cardinality(rows))
     /\ books' = books \ rows
     /\ transactions' = {t \in transactions : t.book_id \notin gone}
     /\ channel' = Notified(Cardinality(rows))
     /\ req' = Served("delete books", uid, Cardinality(rows), FALSE)
     /\ UNCHANGED <<nextBook, nextTransaction, now, identity, client>>

\* INSERT INTO transactions (book_id, borrower_id, transaction_type, status)
InsertTransaction(uid, book, borrower, type, status) ==
  LET row == [transaction_id |-> nextTransaction, book_id |-> book,
              borrower_id |-> borrower, transaction_type |-> type, status |-> status,
              lend_date |-> NULL, due_date |-> NULL, return_date |-> NULL]
  IN /\ Inserted < MaxInserts
     /\ IF /\ transactions_insert_check(uid, row)
           /\ book \in BookIds
           /\ borrower \in ProfileIds
           /\ type \in TransactionTypes
           /\ status \in TransactionStatuses
        THEN /\ transactions' = transactions \cup {row}
             /\ nextTransaction' = nextTransaction + 1
             /\ req' = Served("insert transactions", uid, 1, FALSE)
        ELSE /\ UNCHANGED <<transactions, nextTransaction>>
             /\ req' = Served("insert transactions", uid, 0, TRUE)
     /\ UNCHANGED <<books, nextBook, now, identity, client, channel>>

\* the rows of a transactions table that WHERE transaction_id = <id> and the
\* UPDATE policy leave to the caller
UpdatableRows(uid, id, table) ==
  {t \in table : t.transaction_id = id /\ transactions_update_using(uid, t)}

\* a store that answers an update of an id it does not hold with an error
update_answer_not_found(uid, id, table) ==
  [rows |-> Cardinality(UpdatableRows(uid, id, table)),
   error |-> id \notin {t.transaction_id : t \in table}]

\* the store's answer to an update of transactions: the rows written, no error
update_answer(uid, id, table) ==
  [rows |-> Cardinality(UpdatableRows(uid, id, table)), error |-> FALSE]

\* UPDATE transactions SET status = <status> WHERE transaction_id = <id>
UpdateTransaction(uid, id, status) ==
  LET rows == UpdatableRows(uid, id, transactions)
      answer == update_answer(uid, id, transactions)
  IN IF rows = {}
     THEN /\ req' = Served("update transactions", uid, answer.rows, answer.error)
          /\ UNCHANGED <<books, transactions, nextBook, nextTransaction, now>>
          /\ UNCHANGED <<identity, client, channel>>
     ELSE LET old == CHOOSE t \in rows : TRUE
              new == [old EXCEPT !.status = status]
              fires == on_transaction_status_change(old, new)
              written == IF fires THEN update_book_status_new(old, new) ELSE new
              writes == IF fires THEN update_book_status_writes(old, new) ELSE 0
          IN /\ CanNotify(writes)
             /\ transactions' = (transactions \ {old}) \cup {written}
             /\ books' = IF fires THEN update_book_status_books(old, new) ELSE books
             /\ channel' = Notified(writes)
             /\ req' = Served("update transactions", uid, answer.rows, answer.error)
             /\ UNCHANGED <<nextBook, nextTransaction, now, identity, client>>

\* DELETE FROM transactions WHERE transaction_id = <id>
DeleteTransaction(uid, id) ==
  LET rows == {t \in transactions :
                 t.transaction_id = id /\ transactions_delete_using(uid, t)}
  IN /\ transactions' = transactions \ rows
     /\ req' = Served("delete transactions", uid, Cardinality(rows), FALSE)
     /\ UNCHANGED <<books, nextBook, nextTransaction, now, identity, client, channel>>

\* ---------------------------------------------------- identities
store == <<books, transactions, nextBook, nextTransaction, now>>

\* a sign-up whose profile insert failed and left the auth.users row in place
SignUp_user_kept(id, email, name) ==
  LET new == [id |-> id, email |-> email, name |-> name]
      row == handle_new_user(new)
  IN /\ Cardinality(users) - Cardinality(SeedUsers) < MaxSignUps
     /\ id \notin UserIds
     /\ users' = users \cup {new}
     /\ IF profiles_constraints(row, profiles)
        THEN /\ profiles' = profiles \cup {row}
             /\ req' = Served("sign up", "anon", 1, FALSE)
        ELSE /\ UNCHANGED profiles
             /\ req' = Served("sign up", "anon", 0, TRUE)
     /\ UNCHANGED <<store, client, channel>>

\* INSERT INTO auth.users with AFTER INSERT trigger on_auth_user_created: the
\* trigger function's INSERT INTO public.profiles runs in the statement's
\* transaction, and its constraint violation aborts the statement
SignUp(id, email, name) ==
  LET new == [id |-> id, email |-> email, name |-> name]
      row == handle_new_user(new)
  IN /\ Cardinality(users) - Cardinality(SeedUsers) < MaxSignUps
     /\ id \notin UserIds
     /\ IF profiles_constraints(row, profiles)
        THEN /\ users' = users \cup {new}
             /\ profiles' = profiles \cup {row}
             /\ req' = Served("sign up", "anon", 1, FALSE)
        ELSE /\ UNCHANGED <<users, profiles>>
             /\ req' = Served("sign up", "anon", 0, TRUE)
     /\ UNCHANGED <<store, client, channel>>

\* INSERT INTO profiles (id, name, email)
InsertProfile(uid, id, name, email) ==
  LET row == [id |-> id, name |-> name, email |-> email]
  IN /\ IF /\ profiles_insert_check(uid, row)
           /\ id \in UserIds
           /\ profiles_constraints(row, profiles)
        THEN /\ profiles' = profiles \cup {row}
             /\ req' = Served("insert profiles", uid, 1, FALSE)
        ELSE /\ UNCHANGED profiles
             /\ req' = Served("insert profiles", uid, 0, TRUE)
     /\ UNCHANGED <<store, users, client, channel>>

\* UPDATE profiles SET email = <email> WHERE id = <id>
UpdateProfile(uid, id, email) ==
  LET rows == {p \in profiles : p.id = id /\ profiles_update_using(uid, p)}
  IN /\ IF rows = {}
        THEN /\ UNCHANGED profiles
             /\ req' = Served("update profiles", uid, 0, FALSE)
        ELSE LET old == CHOOSE p \in rows : TRUE
                 new == [old EXCEPT !.email = email]
             IN IF profiles_constraints(new, profiles \ {old})
                THEN /\ profiles' = (profiles \ {old}) \cup {new}
                     /\ req' = Served("update profiles", uid, 1, FALSE)
                ELSE /\ UNCHANGED profiles
                     /\ req' = Served("update profiles", uid, 0, TRUE)
     /\ UNCHANGED <<store, users, client, channel>>

\* DELETE FROM profiles WHERE id = <id>
DeleteProfile(uid, id) ==
  LET rows == {p \in profiles : p.id = id /\ profiles_delete_using(uid, p)}
  IN /\ profiles' = profiles \ rows
     /\ req' = Served("delete profiles", uid, Cardinality(rows), FALSE)
     /\ UNCHANGED <<store, users, client, channel>>

\* ---------------------------------------------------------------- pages
\* MyBooks.handleAddBook, signed in as user
handleAddBook(user) == InsertBook(user, user, "available")

\* MyBooks.handleDeleteBook
handleDeleteBook(user, bookId) == DeleteBook(user, bookId)

\* Index.handleBorrowRequest
handleBorrowRequest(user, bookId) ==
  InsertTransaction(user, bookId, user, "borrow", "pending")

\* Transactions.handleApprove / handleReject / handleMarkReturned
handleApprove(user, transactionId) == UpdateTransaction(user, transactionId, "approved")
handleReject(user, transactionId) == UpdateTransaction(user, transactionId, "rejected")
handleMarkReturned(user, transactionId) ==
  UpdateTransaction(user, transactionId, "completed")

\* the toast handleApprove, handleReject and handleMarkReturned show for the
\* answer { error }: its variant
toast(error) == IF error THEN "destructive" ELSE "default"

\* --------------------------------------------------------------- queries
\* the rows of a transactions table the SELECT policy shows the caller
SelectTransactions(uid, table) ==
  {t \in table : transactions_select_using(uid, t)}

\* Transactions.fetchTransactions: select * from transactions, under the SELECT
\* policy of the caller
fetchTransactionsData(uid) == SelectTransactions(uid, transactions)

\* the transactions of a book that the caller's SELECT policy shows
VisibleOn(uid, id) ==
  {t \in transactions : t.book_id = id /\ transactions_select_using(uid, t)}

\* transactions!inner: the books with at least one embedded transaction
InnerJoined(uid) == {b \in books : VisibleOn(uid, b.book_id) # {}}

\* one row of booksWithBorrower, first being book.transactions[0]
WithBorrower(book, first) ==
  [book_id |-> book.book_id, owner_id |-> book.owner_id, status |-> book.status,
   borrower |-> IF book.status = "borrowed" THEN {first.borrower_id} ELSE NULL]

\* Index.fetchBooks: the lists booksWithBorrower can be; the embedded
\* transactions come in no stated order, so transactions[0] is any of them
booksWithBorrower(uid) ==
  LET ids == {b.book_id : b \in InnerJoined(uid)}
      firsts == {f \in [ids -> transactions] : \A id \in ids : f[id] \in VisibleOn(uid, id)}
  IN { {WithBorrower(b, f[b.book_id]) : b \in InnerJoined(uid)} : f \in firsts }

\* ---------------------------------------------------------------- client
tables == <<books, transactions, nextBook, nextTransaction, now, req, users, profiles>>

\* the 'books-changes' callback: a change event reaches the client, which calls
\* fetchBooks(); the store answers the query
onBooksChange ==
  /\ viewer # "none"
  /\ channel > 0
  /\ channel' = channel - 1
  /\ \E data \in booksWithBorrower(viewer) :
       /\ data \in fetches \/ Cardinality(fetches) < MaxFetches
       /\ fetches' = fetches \cup {data}
  /\ UNCHANGED <<tables, viewer, pageBooks, pageTransactions>>

\* an answer to fetchBooks arrives, whichever of the outstanding ones: setBooks
setBooks ==
  \E data \in fetches :
    /\ pageBooks' = data
    /\ fetches' = fetches \ {data}
    /\ UNCHANGED <<tables, viewer, channel, pageTransactions>>

\* Transactions.fetchTransactions and its setTransactions(data)
fetchTransactions ==
  /\ viewer # "none"
  /\ pageTransactions' = fetchTransactionsData(viewer)
  /\ UNCHANGED <<tables, viewer, channel, fetches, pageBooks>>

\* ------------------------------------------------------- specifications
\* every request a signed-in client can send to the store
Request ==
  \/ \E uid \in Identities, owner \in Identities, s \in BookStatuses :
       InsertBook(uid, owner, s)
  \/ \E uid \in Identities, id \in BookIds, s \in BookStatuses :
       UpdateBook(uid, id, s)
  \/ \E uid \in Identities, id \in BookIds : DeleteBook(uid, id)
  \/ \E uid \in Identities, b \in BookIds, borrower \in Identities,
        ty \in RequestTypes, s \in TransactionStatuses :
       InsertTransaction(uid, b, borrower, ty, s)
  \/ \E uid \in Identities, id \in TransactionIds, s \in TransactionStatuses :
       UpdateTransaction(uid, id, s)
  \/ \E uid \in Identities, id \in TransactionIds : DeleteTransaction(uid, id)

\* the requests the pages send, for every signed-in user
Page ==
  \/ \E user \in Identities : handleAddBook(user)
  \/ \E user \in Identities, bookId \in BookIds : handleDeleteBook(user, bookId)
  \/ \E user \in Identities, bookId \in BookIds : handleBorrowRequest(user, bookId)
  \/ \E user \in Identities, transactionId \in TransactionIds :
       handleApprove(user, transactionId)
  \/ \E user \in Identities, transactionId \in TransactionIds :
       handleReject(user, transactionId)
  \/ \E user \in Identities, transactionId \in TransactionIds :
       handleMarkReturned(user, transactionId)

Next == Tick \/ Page \/ Request

\* the store and its clock
Spec == Init /\ [][Next]_vars

\* the store with each request's caller and outcome logged, the clock standing
InitAccess ==
  /\ InitStore
  /\ NoClient
  /\ req = [op |-> "none", uid |-> "none", rows |-> 0, error |-> FALSE]

NextAccess == Page \/ Request

SpecAccess == InitAccess /\ [][NextAccess]_vars

\* the requests on profiles of every registered identity, and the sign-up
ProfileRequest ==
  \/ \E id \in Newcomers, email \in Emails, name \in Names : SignUp(id, email, name)
  \/ \E uid \in UserIds, id \in UserIds, email \in Emails :
       InsertProfile(uid, id, "User", email)
  \/ \E uid \in UserIds, id \in ProfileIds, email \in Emails : UpdateProfile(uid, id, email)
  \/ \E uid \in UserIds, id \in ProfileIds : DeleteProfile(uid, id)

\* the pages of a registered identity that create and remove rows
Member ==
  \/ \E uid \in UserIds, bookId \in BookIds : handleBorrowRequest(uid, bookId)
  \/ \E uid \in UserIds, bookId \in BookIds : handleDeleteBook(uid, bookId)
  \/ \E uid \in UserIds : handleAddBook(uid)

NextIdentity == ProfileRequest \/ Member

\* the store with sign-ups and the requests on profiles, logged
SpecIdentity == InitAccess /\ [][NextIdentity]_vars

\* a signed-in client: the Index page is mounted, subscribed to 'books-changes',
\* and the answer to its first fetchBooks() is on its way
InitClient ==
  /\ InitStore
  /\ req = NoLog
  /\ viewer \in Identities
  /\ channel = 0
  /\ \E data \in booksWithBorrower(viewer) : fetches = {data}
  /\ pageBooks = {}
  /\ pageTransactions = {}

\* UPDATE books SET status = 'reserved', the status that no trigger writes, from
\* every signed-in client
BookRequest ==
  \E uid \in Identities, id \in BookIds : UpdateBook(uid, id, "reserved")

NextClient == Page \/ BookRequest \/ onBooksChange \/ setBooks

\* the store and one client on the Index page
SpecClient == InitClient /\ [][NextClient]_vars

\* a signed-in client on the Transactions page
InitReader ==
  /\ InitStore
  /\ req = NoLog
  /\ viewer \in Identities
  /\ channel = 0
  /\ fetches = {}
  /\ pageBooks = {}
  /\ pageTransactions = {}

NextReader == Page \/ fetchTransactions

\* the store and one client on the Transactions page
SpecReader == InitReader /\ [][NextReader]_vars

NextLifecycle == Tick \/ Page

\* the pages' requests with the clock running and each request logged
SpecLifecycle == InitAccess /\ [][NextLifecycle]_vars

\* ================================================================ claims
LegalTransitions ==
  { <<"pending", "approved">>, <<"pending", "rejected">>, <<"approved", "completed">> }

\* the row of transactions' that continues row t
After(t) == {u \in transactions' : u.transaction_id = t.transaction_id}
\* the row of books' that continues the book with this id
BookAfter(id) == {b \in books' : b.book_id = id}
ApprovedOn(id) == {t \in transactions : t.book_id = id /\ t.status = "approved"}

\* C1: a Transaction's status changes only along pending->approved,
\* pending->rejected or approved->completed; every other attempted change is
\* refused and leaves the Transaction and its Book as they were.
C1_OnlyLegalTransitions ==
  [][\A t \in transactions : \A u \in After(t) :
       u.status # t.status => <<t.status, u.status>> \in LegalTransitions]_vars

\* Two approvals issued together are two UPDATE statements; the store runs them
\* one after the other in either order (the second waits for the Book row the
\* first one's trigger wrote), so they are two UpdateTransaction steps.
\* C2: once one of two pending Transactions on the same Book has been approved
\* (the Book is borrowed and that Transaction is its only approved one), the
\* approval of the other one does not succeed: the other Transaction is not approved.
C2_SecondApprovalFails ==
  [][\A t \in transactions : \A o \in transactions :
       ( /\ o.transaction_id # t.transaction_id
         /\ o.book_id = t.book_id
         /\ o.status = "approved" /\ o.lend_date # NULL
         /\ ApprovedOn(t.book_id) = {o}
         /\ Book(t.book_id).status = "borrowed"
         /\ t.status = "pending" )
       => \A u \in After(t) : u.status # "approved"]_vars

\* C3: in every reachable state a Book that an approved Transaction references has
\* status borrowed.
C3_ApprovedImpliesBorrowed ==
  \A b \in books : ApprovedOn(b.book_id) # {} => b.status = "borrowed"

\* C4: in every reachable state, starting from the seed rows, a Book with status
\* borrowed is referenced by an approved Transaction.
C4_BorrowedImpliesApproved ==
  \A b \in books : b.status = "borrowed" => ApprovedOn(b.book_id) # {}

\* C5: a step that takes a Transaction from pending to approved also sets, in that
\* same step, its Book's status to borrowed, its lend_date to the current time and
\* its due_date to lend_date + 14 days.
C5_ApprovalIsAtomic ==
  [][\A t \in transactions : \A u \in After(t) :
       (t.status = "pending" /\ u.status = "approved")
       => /\ \A b \in BookAfter(t.book_id) : b.status = "borrowed"
          /\ BookAfter(t.book_id) # {}
          /\ u.lend_date = {now}
          /\ u.due_date = {l + 14 : l \in u.lend_date}]_vars

\* C5 witness: a Transaction approved at the current time, after the clock moved.
C5_Witness ==
  /\ now > 0
  /\ \E t \in transactions :
       /\ t.status = "approved" /\ t.lend_date = {now} /\ t.due_date = {now + 14}
       /\ Book(t.book_id).status = "borrowed"

\* C6: a step that takes a Transaction from approved to completed also sets, in that
\* same step, its Book's status to available and its return_date to the current
\* time, and keeps its lend_date and due_date.
C6_CompletionIsAtomic ==
  [][\A t \in transactions : \A u \in After(t) :
       (t.status = "approved" /\ u.status = "completed")
       => /\ \A b \in BookAfter(t.book_id) : b.status = "available"
          /\ BookAfter(t.book_id) # {}
          /\ u.return_date = {now}
          /\ u.lend_date = t.lend_date
          /\ u.due_date = t.due_date]_vars

\* C6 witness: a Transaction approved at one time and completed at a later one.
C6_Witness ==
  \E t \in transactions :
    /\ t.status = "completed" /\ t.return_date = {now}
    /\ t.lend_date # NULL /\ t.lend_date # t.return_date
    /\ t.due_date = {l + 14 : l \in t.lend_date}
    /\ Book(t.book_id).status = "available"

\* C7: no Transaction row is created for a Book whose status in the store is not
\* available.
C7_BorrowNeedsAvailableBook ==
  [][\A u \in transactions' :
       u.transaction_id \notin TransactionIds
       => Book(u.book_id).status = "available"]_vars

\* C8: a request from an identity that is not the owner of a Transaction's Book
\* leaves that Transaction as it was, and a Transaction update from such an identity
\* leaves the Book as it was too.
C8_OnlyOwnerChangesTransaction ==
  [][\A t \in transactions :
       req'.uid \notin OwnersOf(t.book_id)
       => /\ t \in transactions'
          /\ req'.op = "update transactions" => Book(t.book_id) \in books']_vars

\* C8 witness: the borrower of a completed Transaction sent a Transaction update and
\* it wrote no row.
C8_Witness ==
  /\ req.op = "update transactions" /\ req.rows = 0
  /\ \E t \in transactions :
       /\ t.status = "completed" /\ t.borrower_id = req.uid
       /\ req.uid \notin OwnersOf(t.book_id)

\* C9: a request from an identity that does not own a Book leaves the Book's row,
\* its status included, as it was: no update, no delete, and no Transaction insert or
\* update of that identity changes it.
C9_OnlyOwnerChangesBook ==
  [][\A b \in books : req'.uid # b.owner_id => b \in books']_vars

\* C9 witness: an identity that owns no Book sent a Book update or delete and it
\* wrote no row, with a Book of another owner in the store.
C9_Witness ==
  /\ req.op \in {"update books", "delete books"} /\ req.rows = 0
  /\ books # {}
  /\ \A b \in books : b.owner_id # req.uid

\* C10: a Book's status is written only as the side effect of a status change of a
\* Transaction that references it, and a Book row is created with the default
\* status.
C10_StatusOnlyByTransition ==
  [][/\ \A b \in books : \A c \in BookAfter(b.book_id) :
          c.status # b.status
          => \E t \in transactions : \E u \in After(t) :
               t.book_id = b.book_id /\ u.status # t.status
     /\ \A c \in books' : c.book_id \notin BookIds => c.status = "available"]_vars

\* C11: every Transaction row the store accepts at creation has status pending,
\* type borrow and lend_date, due_date and return_date unset; an insert with another
\* initial status creates no row.
C11_CreatedPending ==
  [][\A u \in transactions' :
       u.transaction_id \notin TransactionIds
       => /\ u.status = "pending"
          /\ u.transaction_type = "borrow"
          /\ u.lend_date = NULL /\ u.due_date = NULL /\ u.return_date = NULL]_vars

\* a request the store answered with an error or that matched no row
Failed == req'.error \/ req'.rows = 0

\* a failed request leaves both tables as they were
FailureLeavesRows ==
  [][Failed => books' = books /\ transactions' = transactions]_vars

\* C12: a failed mutation leaves every Book row and every Transaction row as it
\* was, and a status change comes with its timestamp writes and its Book status
\* update or not at all: a Transaction that becomes approved has lend_date and
\* due_date written and its Book borrowed, one that becomes completed has
\* return_date written and its Book available.
C12_AllOrNothing ==
  [][/\ Failed => books' = books /\ transactions' = transactions
     /\ \A t \in transactions : \A u \in After(t) :
          /\ (u.status # t.status /\ u.status = "approved")
             => /\ u.lend_date = {now} /\ u.due_date = {now + 14}
                /\ \A b \in BookAfter(t.book_id) : b.status = "borrowed"
          /\ (u.status # t.status /\ u.status = "completed")
             => /\ u.return_date = {now}
                /\ \A b \in BookAfter(t.book_id) : b.status = "available"]_vars

\* every registered identity has exactly one Profile row, with the identity's id
IdentityHasProfile ==
  \A u \in users : Cardinality({p \in profiles : p.id = u.id}) = 1

\* C13: in every reachable state each registered identity has exactly one Profile,
\* whose id is the identity's id and whose email is the identity's email.
C13_ProfileMatchesIdentity ==
  \A u \in users :
    /\ Cardinality({p \in profiles : p.id = u.id}) = 1
    /\ \A p \in profiles : p.id = u.id => p.email = u.email

\* C14: a registration whose Profile creation fails leaves no new identity and no
\* new Profile, and leaves every existing Profile as it was.
C14_FailedSignUpLeavesNothing ==
  [][(req'.op = "sign up" /\ req'.error)
     => users' = users /\ profiles' = profiles]_vars

\* C14 witness: a sign-up was refused while a Profile holds an email that no
\* identity has, and the identities and Profiles are the seed ones.
C14_Witness ==
  /\ req.op = "sign up" /\ req.error
  /\ \E p \in profiles : p.email \notin {u.email : u \in users}
  /\ UserIds = ProfileIds
  /\ users = SeedUsers

\* C15: a Transaction row is created only by an insert of its borrower: every row
\* a step creates has the caller of that step as its borrower, so an insert for
\* another borrower creates no row.
C15_InsertOnlyAsSelf ==
  [][\A u \in transactions' :
       u.transaction_id \notin TransactionIds
       => req'.op = "insert transactions" /\ u.borrower_id = req'.uid]_vars

\* C15 witness: a Transaction insert was refused and no row was created, all
\* values of the insert being ones the table admits.
C15_Witness ==
  /\ req.op = "insert transactions" /\ req.error
  /\ nextTransaction = Cardinality(SeedTransactions) + 1
  /\ transactions = SeedTransactions

\* C19: a step that removes a Book is its owner's delete, removes every Transaction
\* that references the Book and changes no other Book or Transaction; and in every
\* reachable state each Transaction references an existing Book and an existing
\* borrower Profile.
C19_DeleteCascades ==
  /\ [](\A t \in transactions : t.book_id \in BookIds /\ t.borrower_id \in ProfileIds)
  /\ [][\A b \in books :
          b \notin books'
          => /\ req'.op = "delete books" /\ req'.uid = b.owner_id
             /\ books' = books \ {b}
             /\ transactions' = {t \in transactions : t.book_id # b.book_id}]_vars

\* C19 witness: the owner of the seed Book deleted it, the Transaction on it is gone
\* and a Book listed later is still there.
C19_Witness ==
  /\ req.op = "delete books" /\ req.rows = 1
  /\ books # {} /\ books \cap SeedBooks = {}
  /\ transactions = {}

\* C20: a Transaction disappears only in the step that deletes its Book, and a
\* delete sent against a Transaction removes nothing, whoever sends it.
C20_NoClientDelete ==
  [][/\ \A t \in transactions :
          t.transaction_id \notin {u.transaction_id : u \in transactions'}
          => req'.op = "delete books" /\ t.book_id \notin {b.book_id : b \in books'}
     /\ req'.op = "delete transactions"
        => req'.rows = 0 /\ transactions' = transactions /\ books' = books]_vars

\* C20 witness: the owner of a Transaction's Book sent a delete for a Transaction
\* and the Transaction is still there.
C20_Witness ==
  /\ req.op = "delete transactions"
  /\ \E t \in transactions : req.uid \in OwnersOf(t.book_id)

\* C16: the Transactions a list-Transactions query returns to an identity are
\* exactly those whose borrower it is or whose Book it owns.
C16_ListsOwnTransactions ==
  [][pageTransactions' # pageTransactions
     => pageTransactions' =
          {t \in transactions :
             \/ t.borrower_id = viewer
             \/ \E b \in books : b.book_id = t.book_id /\ b.owner_id = viewer}]_vars

\* C16 witness: the list holds the viewer's own request while the store also holds
\* a Transaction between two other identities, which the list does not hold.
C16_Witness ==
  /\ \E t \in pageTransactions : t.borrower_id = viewer /\ t \in transactions
  /\ \E t \in transactions :
       /\ t.borrower_id # viewer /\ viewer \notin OwnersOf(t.book_id)
       /\ t.transaction_id \notin {v.transaction_id : v \in pageTransactions}

\* C17: the answer to a list-Books query holds every Book of the store.
C17_BrowseListsEveryBook ==
  [][\A data \in fetches' \ fetches : {x.book_id : x \in data} = BookIds]_vars

\* C18: a step that changes a row of the Book table queues a change notification;
\* a step that delivers a notification puts the answer to a list-Books query on the
\* current store on its way and leaves the local list alone; and the local list
\* changes only by being replaced with such an answer.
C18_NotifyThenRequery ==
  [][/\ books' # books => channel' = channel + 1
     /\ channel' < channel
        => /\ \E data \in booksWithBorrower(viewer) : fetches' = fetches \cup {data}
           /\ pageBooks' = pageBooks
     /\ pageBooks' # pageBooks
        => pageBooks' \in fetches /\ channel' = channel /\ books' = books]_vars

\* C18 witness: the list shows the seed Book as available, the status the trigger
\* wrote when its Transaction was completed, and nothing is outstanding.
C18_Witness ==
  /\ channel = 0 /\ fetches = {}
  /\ \E x \in pageBooks : x.book_id = 1 /\ x.status = "available"
  /\ \E t \in transactions : t.book_id = 1 /\ t.status = "completed"

\* C21: a step that takes a Transaction from pending to rejected changes that
\* Transaction's status and nothing else: every Book, every other Transaction and
\* the Transaction's lend_date, due_date and return_date stay as they were.
C21_RejectionChangesStatusOnly ==
  [][\A t \in transactions : \A u \in After(t) :
       (t.status = "pending" /\ u.status = "rejected")
       => /\ u = [t EXCEPT !.status = "rejected"]
          /\ transactions' = (transactions \ {t}) \cup {u}
          /\ books' = books]_vars

\* C21 witness: the seed request was rejected after the clock moved; its dates are
\* unset and its Book is still borrowed.
C21_Witness ==
  /\ now > 0
  /\ \E t \in transactions :
       /\ t.transaction_id = 1 /\ t.status = "rejected"
       /\ t.lend_date = NULL /\ t.due_date = NULL /\ t.return_date = NULL
       /\ \E b \in books : b.book_id = t.book_id /\ b.status = "borrowed"

\* C22: a Transaction update that was denied, matching no row the requester may
\* update, is answered with an error, and the page shows its failure message.
C22_DenialIsFailure ==
  (req.op = "update transactions" /\ req.rows = 0)
  => (req.error /\ toast(req.error) = "destructive")

\* C23: for an identity that is neither borrower nor Book owner of a Transaction,
\* reading the Transactions and updating that Transaction's id give the same
\* outcome in the current store and in the store without that Transaction.
C23_DenialDoesNotLeak ==
  \A I \in Identities : \A X \in transactions :
    (I # X.borrower_id /\ I \notin OwnersOf(X.book_id))
    => LET without == transactions \ {X}
       IN /\ SelectTransactions(I, transactions) = SelectTransactions(I, without)
          /\ update_answer(I, X.transaction_id, transactions)
               = update_answer(I, X.transaction_id, without)

\* C23 witness: an identity that reads a Transaction of its own was answered 0 rows
\* on an update, with a Transaction between two others in the store.
C23_Witness ==
  /\ req.op = "update transactions" /\ req.rows = 0 /\ ~req.error
  /\ SelectTransactions(req.uid, transactions) # {}
  /\ \E X \in transactions :
       req.uid # X.borrower_id /\ req.uid \notin OwnersOf(X.book_id)

\* C24: in every reachable state at most one approved Transaction references any
\* given Book; counted are the Transactions approved from pending, which carry the
\* lend_date the trigger wrote.
C24_OneApprovedPerBook ==
  \A b \in books :
    Cardinality({t \in ApprovedOn(b.book_id) : t.lend_date # NULL}) <= 1

\* C25: in every reachable state a pending or rejected Transaction has lend_date,
\* due_date and return_date unset, an approved one has lend_date and due_date set
\* and return_date unset, and a completed one has all three set.
C25_DatesAgreeWithStatus ==
  \A t \in transactions :
    /\ t.status \in {"pending", "rejected"}
       => t.lend_date = NULL /\ t.due_date = NULL /\ t.return_date = NULL
    /\ t.status = "approved"
       => t.lend_date # NULL /\ t.due_date # NULL /\ t.return_date = NULL
    /\ t.status = "completed"
       => t.lend_date # NULL /\ t.due_date # NULL /\ t.return_date # NULL

\* no notification is waiting and no answer to a list-Books query is outstanding
Settled == viewer # "none" /\ channel = 0 /\ fetches = {}

\* C26: once no notification is waiting and every list-Books query has returned,
\* the displayed list is the query's result on the store as it is; compared are the
\* rows shown, each of which must be a Book of the store with the status shown.
C26_SettledListIsCurrent ==
  Settled
  => \A x \in pageBooks : \E b \in books : b.book_id = x.book_id /\ b.status = x.status

\* C27: in the answer to a list-Books query, a Book shown as borrowed that has one
\* approved Transaction shows that Transaction's borrower, whatever other
\* Transactions it has, and a Book not shown as borrowed shows no borrower.
C27_BorrowerIsApprovedOne ==
  [][\A data \in fetches' \ fetches : \A x \in data :
       /\ (x.status = "borrowed" /\ Cardinality(ApprovedOn(x.book_id)) = 1)
          => x.borrower = {t.borrower_id : t \in ApprovedOn(x.book_id)}
       /\ x.status # "borrowed" => x.borrower = NULL]_vars


\* C28: an update that writes the status a Transaction already has does not
\* run the status trigger: lend_date, due_date, return_date and every Book's
\* status are what they were.
C28_SameStatusIsNoOp ==
  [][\A uid \in Identities : \A t \in transactions :
       UpdateTransaction(uid, t.transaction_id, t.status)
       => /\ transactions' = transactions
          /\ books' = books]_vars

\* the state left by the owner writing 'completed' at time 1 on a Transaction
\* completed at time 0: the return date is still 0 and the Book is still the
\* later borrower's
C28_Witness ==
  /\ now = 1
  /\ req.op = "update transactions" /\ req.rows = 1 /\ ~req.error
  /\ \E t \in transactions :
       /\ t.status = "completed" /\ t.return_date = {0}
       /\ req.uid \in OwnersOf(t.book_id)
       /\ \E b \in books : b.book_id = t.book_id /\ b.status = "borrowed"

\* C29: in every reachable state no Transaction has a borrower who owns the
\* Book it references.
C29_NoOwnBookRequest ==
  \A t \in transactions : t.borrower_id \notin OwnersOf(t.book_id)

====
